---- MODULE Spec2Model ----
(***************************************************************************)
(* A model of hd: the byte classifier (group.rs), the grapheme placement   *)
(* engine (grapheme.rs) and the row printer (main.rs).                     *)
(*                                                                         *)
(* Bytes are the integers 0..255.  Text is a sequence of one-character     *)
(* strings; a &str taken from the input buffer is the sequence of its      *)
(* UTF-8 bytes.  Option<T> is a sequence of zero or one elements.          *)
(***************************************************************************)
EXTENDS Integers, Sequences, FiniteSets, TLC

VARIABLES
    pc,       \* position of the running procedure
    printer,  \* Printer { width, group, numeric, max }
    state,    \* PrinterState { addr, column, hex, table, hex_group, table_group }
    buf,      \* the bytes of the last read, buf[..size]
    start,    \* pretty_hex: start
    cur,      \* format_group: the group being formatted (Option)
    idx,      \* format_group: loop index i
    input,    \* history: every byte read so far, over all sources
    cuts,     \* history: the offsets in input at which a read ended
    marks,    \* history: per formatted byte, its kind, placement, column and row
    rows,     \* history: the rows written to stdout
    nsrc,     \* number of sources opened so far
    args,     \* arguments of the function under test
    ret       \* its return value (Option)

vars == <<pc, printer, state, buf, start, cur, idx, input, cuts, marks, rows, nsrc, args, ret>>

(***************************************************************************)
(* Bounds of the model.                                                    *)
(***************************************************************************)
MaxLen == 4        \* longest slice handed to Group::gather on its own
MaxInput == 4      \* bytes read in total by one Printer
MaxRead == 3       \* longest single read
MaxWidth == 2      \* widest row of the Printer runs
MaxSources == 2    \* sources processed by one Printer

\* 0x01 control, '0', '7', 'A', continuation byte, lead bytes of e-acute (c3 a9),
\* of the combining mark U+0329 (cc a9) and of the wide U+4A69 (e4 a9 a9), 0xff.
GatherBytes == {1, 48, 55, 65, 169, 195, 204, 228, 255}

\* The bytes the modelled sources deliver: 'A' (printable, a digit in Hexadecimal
\* mode), and the bytes of the wide cluster e4 a9 a9, which are Invalid when
\* they do not form it.
SourceBytes == {65, 169, 228}

Modes == {"Octal", "Decimal", "Hexadecimal"}

\* The numeric modes of the modelled runs: no source byte is an ASCII digit, so
\* Octal classifies every source byte as Decimal does.
SourceModes == {"Decimal", "Hexadecimal"}

Kinds == {"Numeric", "Printable", "Control", "Graphemes", "Invalid"}

None == <<>>

Some(x) == <<x>>

Min(a, b) == IF a < b THEN a ELSE b

\* Sequences over S of length lo..hi.
SeqsOf(S, lo, hi) == UNION {[1..n -> S] : n \in lo..hi}

\* bytes[from..] with a 0-based offset, as a Rust slice.
SliceFrom(bytes, from) == SubSeq(bytes, from + 1, Len(bytes))

\* bytes[..to]
SliceTo(bytes, to) == SubSeq(bytes, 1, to)

(***************************************************************************)
(* std::str::from_utf8                                                     *)
(***************************************************************************)
IsCont(b) == b \in 128..191

\* Length of the well-formed UTF-8 sequence at 1-based position p, 0 if none.
Utf8SeqLen(bytes, p) ==
    LET n == Len(bytes)
        b0 == bytes[p]
        at(k) == bytes[p + k]
        has(k) == p + k <= n
    IN  IF b0 < 128 THEN 1
        ELSE IF b0 \in 194..223
            THEN IF has(1) /\ IsCont(at(1)) THEN 2 ELSE 0
        ELSE IF b0 \in 224..239
            THEN IF has(2)
                    /\ (CASE b0 = 224 -> at(1) \in 160..191
                          [] b0 = 237 -> at(1) \in 128..159
                          [] OTHER -> IsCont(at(1)))
                    /\ IsCont(at(2))
                 THEN 3 ELSE 0
        ELSE IF b0 \in 240..244
            THEN IF has(3)
                    /\ (CASE b0 = 240 -> at(1) \in 144..191
                          [] b0 = 244 -> at(1) \in 128..143
                          [] OTHER -> IsCont(at(1)))
                    /\ IsCont(at(2)) /\ IsCont(at(3))
                 THEN 4 ELSE 0
        ELSE 0

RECURSIVE ValidFrom(_, _)
ValidFrom(bytes, p) ==
    IF p > Len(bytes) THEN TRUE
    ELSE LET l == Utf8SeqLen(bytes, p)
         IN  l > 0 /\ ValidFrom(bytes, p + l)

from_utf8_ok(bytes) == ValidFrom(bytes, 1)

\* The code point encoded by the l bytes at position p.
CodePoint(bytes, p, l) ==
    CASE l = 1 -> bytes[p]
      [] l = 2 -> (bytes[p] - 192) * 64 + (bytes[p + 1] - 128)
      [] l = 3 -> (bytes[p] - 224) * 4096 + (bytes[p + 1] - 128) * 64
                    + (bytes[p + 2] - 128)
      [] OTHER -> (bytes[p] - 240) * 262144 + (bytes[p + 1] - 128) * 4096
                    + (bytes[p + 2] - 128) * 64 + (bytes[p + 3] - 128)

(***************************************************************************)
(* unicode_segmentation: extended grapheme clusters.  The property table   *)
(* covers the code points the model's bytes can encode; the rules are      *)
(* GB4, GB5, GB9, GB11 and GB999.                                          *)
(***************************************************************************)
GraphemeCat(cp) ==
    IF cp < 32 \/ cp \in 127..159 THEN "Control"
    ELSE IF cp = 8205 THEN "ZWJ"
    ELSE IF cp \in 768..879 \/ cp \in 65024..65039 \/ cp \in 127995..127999
        THEN "Extend"
    ELSE IF cp \in 127744..128767 \/ cp \in 129280..129791 THEN "ExtPict"
    ELSE "Other"

\* emoji state after reading a code point of category cat (for GB11)
EmojiState(prev, cat) ==
    CASE cat = "ExtPict" -> "pict"
      [] cat = "Extend" /\ prev = "pict" -> "pict"
      [] cat = "ZWJ" /\ prev = "pict" -> "zwj"
      [] OTHER -> "none"

IsBoundary(before, emoji, after) ==
    IF before = "Control" \/ after = "Control" THEN TRUE
    ELSE IF after \in {"Extend", "ZWJ"} THEN FALSE
    ELSE IF emoji = "zwj" /\ after = "ExtPict" THEN FALSE
    ELSE TRUE

\* End (exclusive, 0-based) of the cluster whose last code point so far ends at p - 1.
RECURSIVE ClusterEnd(_, _, _, _)
ClusterEnd(s, p, before, emoji) ==
    IF p > Len(s) THEN Len(s)
    ELSE LET l == Utf8SeqLen(s, p)
             cat == GraphemeCat(CodePoint(s, p, l))
         IN  IF IsBoundary(before, emoji, cat) THEN p - 1
             ELSE ClusterEnd(s, p + l, cat, EmojiState(emoji, cat))

\* graphemes(s, true).next().map(|g| g.len()) of a well-formed string
FirstGraphemeLen(s) ==
    IF Len(s) = 0 THEN None
    ELSE LET l == Utf8SeqLen(s, 1)
             cat == GraphemeCat(CodePoint(s, 1, l))
         IN  Some(ClusterEnd(s, 1 + l, cat, EmojiState("none", cat)))

(***************************************************************************)
(* unicode_display_width::width of one cluster                             *)
(***************************************************************************)
CodePointWidth(cp) ==
    IF GraphemeCat(cp) \in {"Control", "Extend", "ZWJ"} THEN 0
    ELSE IF \/ cp \in 4352..4447 \/ cp \in 11904..42191 \/ cp \in 44032..55203
            \/ cp \in 63744..64255 \/ cp \in 65280..65376
            \/ cp \in 127744..128767 \/ cp \in 129280..129791
        THEN 2
    ELSE 1

RECURSIVE WidthFrom(_, _)
WidthFrom(s, p) ==
    IF p > Len(s) THEN 0
    ELSE LET l == Utf8SeqLen(s, p)
             w == CodePointWidth(CodePoint(s, p, l))
             r == WidthFrom(s, p + l)
         IN  IF w > r THEN w ELSE r

DisplayWidth(cluster) == WidthFrom(cluster, 1)

(***************************************************************************)
(* grapheme.rs: Span                                                       *)
(***************************************************************************)
SpanAscii(bytes) == [bytes |-> bytes, parsed |-> None]

SpanParse(bytes) ==
    IF ~from_utf8_ok(bytes) THEN None
    ELSE LET g == FirstGraphemeLen(bytes)
         IN  IF g = None THEN None
             ELSE Some([bytes |-> SliceTo(bytes, g[1]),
                        parsed |-> Some(SliceTo(bytes, g[1]))])

\* as_char showing the cluster at offset 0 whatever the column
AsCharNoWrap(span, index, column, width) ==
    LET cluster == span.parsed[1]
        wide == DisplayWidth(cluster) = 2
    IN  IF index = 0 \/ (index = 1 /\ wide /\ column = 0)
        THEN "Cluster"
        ELSE IF wide /\ ((index = 1 /\ column # 0) \/ (index = 2 /\ column = 1))
        THEN "Skip"
        ELSE "Space"

\* as_char without the Skip of a cluster moved to the next row
AsCharNoWrapSkip(span, index, column, width) ==
    LET cluster == span.parsed[1]
        wide == DisplayWidth(cluster) = 2
    IN  IF \/ (index = 0 /\ (~wide \/ column # width - 1))
           \/ (index = 1 /\ wide /\ column = 0)
        THEN "Cluster"
        ELSE IF wide /\ index = 1 /\ column # 0
        THEN "Skip"
        ELSE "Space"

\* Span::as_char; index and column are 0-based as in the code.
AsChar(span, index, column, width) ==
    LET cluster == span.parsed[1]
        wide == DisplayWidth(cluster) = 2
    IN  IF \/ (index = 0 /\ (~wide \/ column # width - 1))
           \/ (index = 1 /\ wide /\ column = 0)
        THEN "Cluster"
        ELSE IF wide /\ ((index = 1 /\ column # 0) \/ (index = 2 /\ column = 1))
        THEN "Skip"
        ELSE "Space"

(***************************************************************************)
(* group.rs: Kind and Group                                                *)
(***************************************************************************)
IsAsciiDigit(b) == b \in 48..57

IsAsciiHexdigit(b) == b \in 48..57 \/ b \in 65..70 \/ b \in 97..102

IsAsciiGraphic(b) == b \in 33..126

IsAsciiControl(b) == b \in 0..31 \/ b = 127

\* (b'0'..b'7').contains(&byte): the range excludes its end
OctalRange(b) == 48 <= b /\ b < 55

IsNumeric(b, numeric) ==
    CASE numeric = "Octal" -> OctalRange(b)
      [] numeric = "Decimal" -> IsAsciiDigit(b)
      [] numeric = "Hexadecimal" -> IsAsciiHexdigit(b)

IsPrintable(b) == b = 32 \/ IsAsciiGraphic(b)

IsControl(b) == IsAsciiControl(b)

GroupNew(kind, bytes) == [kind |-> kind, span |-> SpanAscii(bytes)]

\* The loops of the *_span functions: length is the count of bytes taken so far,
\* the next byte examined is bytes[length] (0-based).
RECURSIVE NumericLen(_, _, _)
NumericLen(bytes, numeric, length) ==
    IF length >= Len(bytes) THEN length
    ELSE IF ~IsNumeric(bytes[length + 1], numeric) THEN length
    ELSE NumericLen(bytes, numeric, length + 1)

NumericSpan(bytes, numeric) ==
    GroupNew("Numeric", SliceTo(bytes, NumericLen(bytes, numeric, 1)))

\* printable_span without the numeric test
RECURSIVE PrintableLenAnyDigit(_, _, _)
PrintableLenAnyDigit(bytes, numeric, length) ==
    IF length >= Len(bytes) THEN length
    ELSE IF ~IsPrintable(bytes[length + 1]) THEN length
    ELSE PrintableLenAnyDigit(bytes, numeric, length + 1)

RECURSIVE PrintableLen(_, _, _)
PrintableLen(bytes, numeric, length) ==
    IF length >= Len(bytes) THEN length
    ELSE IF ~IsPrintable(bytes[length + 1]) \/ IsNumeric(bytes[length + 1], numeric)
        THEN length
    ELSE PrintableLen(bytes, numeric, length + 1)

PrintableSpan(bytes, numeric) ==
    GroupNew("Printable", SliceTo(bytes, PrintableLen(bytes, numeric, 1)))

RECURSIVE ControlLen(_, _)
ControlLen(bytes, length) ==
    IF length >= Len(bytes) THEN length
    ELSE IF ~IsControl(bytes[length + 1]) THEN length
    ELSE ControlLen(bytes, length + 1)

ControlSpan(bytes) == GroupNew("Control", SliceTo(bytes, ControlLen(bytes, 1)))

\* for (i, byte) in bytes[1..].iter().enumerate(): byte is bytes[i + 1] and
\* the parse is attempted on bytes[i..]; length = i + 1 throughout.
InvalidProbe(bytes, i) == SpanParse(SliceFrom(bytes, i))

RECURSIVE InvalidLen(_, _, _)
InvalidLen(bytes, numeric, i) ==
    IF i + 1 >= Len(bytes) THEN i + 1
    ELSE LET byte == bytes[i + 2]
         IN  IF \/ IsNumeric(byte, numeric)
                \/ IsPrintable(byte)
                \/ IsControl(byte)
                \/ InvalidProbe(bytes, i) # None
             THEN i + 1
             ELSE InvalidLen(bytes, numeric, i + 1)

\* invalid_span with length starting at 0
InvalidSpanFromZero(bytes, numeric) ==
    GroupNew("Invalid", SliceTo(bytes, InvalidLen(bytes, numeric, 0) - 1))

InvalidSpan(bytes, numeric) ==
    GroupNew("Invalid", SliceTo(bytes, InvalidLen(bytes, numeric, 0)))

\* gather building the Graphemes group with Group::new, which drops the parsed text
GatherUnparsed(bytes, numeric) ==
    LET byte == bytes[1]
    IN  IF IsNumeric(byte, numeric) THEN NumericSpan(bytes, numeric)
        ELSE IF IsPrintable(byte) THEN PrintableSpan(bytes, numeric)
        ELSE IF IsControl(byte) THEN ControlSpan(bytes)
        ELSE IF SpanParse(bytes) # None
            THEN GroupNew("Graphemes", SpanParse(bytes)[1].bytes)
        ELSE InvalidSpan(bytes, numeric)

\* Group::gather
Gather(bytes, numeric) ==
    LET byte == bytes[1]
    IN  IF IsNumeric(byte, numeric) THEN NumericSpan(bytes, numeric)
        ELSE IF IsPrintable(byte) THEN PrintableSpan(bytes, numeric)
        ELSE IF IsControl(byte) THEN ControlSpan(bytes)
        ELSE IF SpanParse(bytes) # None
            THEN [kind |-> "Graphemes", span |-> SpanParse(bytes)[1]]
        ELSE InvalidSpan(bytes, numeric)

(***************************************************************************)
(* main.rs: Printer                                                        *)
(***************************************************************************)
DivCeil(a, b) == (a + b - 1) \div b

\* A usize is held as four 16-bit limbs, most significant first.
U64(n) == <<0, 0, n \div 65536, n % 65536>>

\* x + n with usize wrap-around, for n < 2^16
U64Add(x, n) ==
    LET d == x[4] + n
        c == x[3] + d \div 65536
        b == x[2] + c \div 65536
        a == x[1] + b \div 65536
    IN  <<a % 65536, b % 65536, c % 65536, d % 65536>>

\* padding(group, length); div_ceil panics on group = 0
Padding(group, length) == length * 2 + DivCeil(length, group)

\* Printer::new: Result<Printer, Error>, or the panic of padding's division
PrinterNew(width, group, numeric) ==
    IF width <= 1 \/ width > 4096 THEN [tag |-> "Err", error |-> "Width"]
    ELSE IF group > width THEN [tag |-> "Err", error |-> "Grouping"]
    ELSE IF group = 0 THEN [tag |-> "Panic", error |-> "DivideByZero"]
    ELSE [tag |-> "Ok",
          value |-> [width |-> width, group |-> group, numeric |-> numeric,
                     max |-> Padding(group, width)]]

\* PrinterState::default()
DefaultState ==
    [addr |-> U64(0), column |-> 0, hex |-> <<>>, table |-> <<>>,
     hex_group |-> <<>>, table_group |-> <<>>]

HexDigits ==
    <<"0", "1", "2", "3", "4", "5", "6", "7", "8", "9", "a", "b", "c", "d", "e", "f">>

\* format!("{byte:02x}")
Hex2(byte) == <<HexDigits[(byte \div 16) + 1], HexDigits[(byte % 16) + 1]>>

\* format!("{:04x}", v) for v < 2^16
Hex4(v) == Hex2(v \div 256) \o Hex2(v % 256)

\* pretty_addr with the fields in the opposite order
PrettyAddrSwapped(addr) ==
    Hex4(addr[4] % 65536) \o <<"_">> \o Hex4(addr[3] % 65536) \o <<"_">>
        \o Hex4(addr[2] % 65536) \o <<"_">> \o Hex4(addr[1])

\* Printer::pretty_addr: addr >> 48, (addr >> 32) & 0xffff, (addr >> 16) & 0xffff,
\* addr & 0xffff, each as {:04x}, joined by underscores
PrettyAddr(addr) ==
    LET a == addr[1]
        b == addr[2] % 65536
        c == addr[3] % 65536
        d == addr[4] % 65536
    IN  Hex4(a) \o <<"_">> \o Hex4(b) \o <<"_">> \o Hex4(c) \o <<"_">> \o Hex4(d)

\* A cell of the character table: the byte as a char, a dot, a blank or a cluster.
CharCell(byte) == [t |-> "char", s |-> <<byte>>]

DotCell == [t |-> "dot", s |-> <<>>]

SpaceCell == [t |-> "space", s |-> <<>>]

ClusterCell(cluster) == [t |-> "cluster", s |-> cluster]

\* colorize_group without hex_group.clear() and table_group.clear()
ColorizeGroupNoClear(st, kind) ==
    [st EXCEPT !.hex = Append(@, [kind |-> kind, text |-> st.hex_group]),
               !.table = Append(@, [kind |-> kind, text |-> st.table_group])]

\* Printer::colorize_group: a styled fragment is the text with its kind's style
ColorizeGroup(st, kind) ==
    [st EXCEPT !.hex = Append(@, [kind |-> kind, text |-> st.hex_group]),
               !.table = Append(@, [kind |-> kind, text |-> st.table_group]),
               !.hex_group = <<>>,
               !.table_group = <<>>]

\* the line print_row writes
RowLine(p, st) ==
    [addr |-> PrettyAddr(st.addr),
     hex |-> st.hex,
     hex_pad |-> p.max - Padding(p.group, st.column),
     table |-> st.table,
     table_pad |-> p.width - st.column]

\* print_row advancing the address by the bytes of the row
PrintRowByColumn(p, st) ==
    [st EXCEPT !.column = 0,
               !.addr = U64Add(@, st.column),
               !.hex = <<>>,
               !.table = <<>>]

\* print_row without self.state.hex.clear()
PrintRowKeepHex(p, st) ==
    [st EXCEPT !.column = 0,
               !.addr = U64Add(@, p.width),
               !.table = <<>>]

\* the state print_row leaves
PrintRow(p, st) ==
    [st EXCEPT !.column = 0,
               !.addr = U64Add(@, p.width),
               !.hex = <<>>,
               !.table = <<>>]

\* format_group writing the separator after a full byte group instead of before it
HexStepSepAfter(p, st, byte) ==
    LET sep == IF (st.column + 1) % p.group = 0 THEN <<" ">> ELSE <<>>
    IN  st.hex_group \o Hex2(byte) \o sep

\* The part of format_group's loop body that builds the pending buffers.
HexStep(p, st, byte) ==
    LET sep == IF st.column % p.group = 0 THEN <<" ">> ELSE <<>>
    IN  st.hex_group \o sep \o Hex2(byte)

Placement(p, st, g, i) ==
    CASE g.kind \in {"Printable", "Numeric"} -> "Char"
      [] g.kind = "Graphemes" -> AsChar(g.span, i, st.column, p.width)
      [] g.kind \in {"Control", "Invalid"} -> "Dot"

TableStep(st, g, byte, place) ==
    CASE place = "Char" -> Append(st.table_group, CharCell(byte))
      [] place = "Cluster" -> Append(st.table_group, ClusterCell(g.span.parsed[1]))
      [] place = "Space" -> Append(st.table_group, SpaceCell)
      [] place = "Skip" -> st.table_group
      [] place = "Dot" -> Append(st.table_group, DotCell)

\* state after the i-th byte's buffers are written and column is incremented
ByteStep(p, st, g, i) ==
    LET byte == g.span.bytes[i + 1]
    IN  [st EXCEPT !.hex_group = HexStep(p, st, byte),
                   !.table_group = TableStep(st, g, byte, Placement(p, st, g, i)),
                   !.column = @ + 1]

(***************************************************************************)
(* The Printer's run: run() builds one Printer and calls pretty_hex once   *)
(* per source.                                                             *)
(***************************************************************************)
Configs ==
    {PrinterNew(w, g, n).value :
        <<w, g, n>> \in {c \in (0..MaxWidth) \X (0..MaxWidth) \X SourceModes :
                            PrinterNew(c[1], c[2], c[3]).tag = "Ok"}}

NoArgs == [fn |-> "none"]

Init ==
    /\ pc = "read"
    /\ printer \in Configs
    /\ state = DefaultState
    /\ buf = <<>>
    /\ start = 0
    /\ cur = None
    /\ idx = 0
    /\ input = <<>>
    /\ cuts = <<>>
    /\ marks = <<>>
    /\ rows = <<>>
    /\ nsrc = 1
    /\ args = NoArgs
    /\ ret = None

\* reader.read(&mut buf) returns size > 0
Read ==
    /\ pc = "read"
    /\ Len(input) < MaxInput
    /\ \E chunk \in SeqsOf(SourceBytes, 1, Min(MaxRead, MaxInput - Len(input))) :
        /\ buf' = chunk
        /\ input' = input \o chunk
        /\ cuts' = Append(cuts, Len(input) + Len(chunk))
    /\ start' = 0
    /\ pc' = "gather"
    /\ UNCHANGED <<printer, state, cur, idx, marks, rows, nsrc, args, ret>>

\* reader.read fails: the ? operator returns Error::Io(err) from pretty_hex and run
ErrIo == [tag |-> "Err", error |-> "Io", source |-> None]

\* File::open fails: Error::File(err, path)
ErrFile(path) == [tag |-> "Err", error |-> "File", source |-> Some(path)]

ReadFail ==
    /\ pc = "read"
    /\ pc' = "failed"
    /\ ret' = Some(ErrIo)
    /\ UNCHANGED <<printer, state, buf, start, cur, idx, input, cuts, marks, rows, nsrc, args>>

\* The panics of the formatting path: the unwrap and width - 1 of as_char, the
\* remainder by group, and the subtractions that size print_row's padding.
AsCharPanics(span, width) == span.parsed = None \/ width < 1

FormatPanics(p, g) ==
    \/ p.group = 0
    \/ g.kind = "Graphemes" /\ AsCharPanics(g.span, p.width)

PrintRowPanics(p, st) ==
    \/ p.group = 0
    \/ p.max < Padding(p.group, st.column)
    \/ p.width < st.column

\* pretty_hex returning at end of stream without printing the remaining row
EofNoFlush ==
    /\ pc = "read"
    /\ pc' = "done"
    /\ UNCHANGED <<printer, state, buf, start, cur, idx, input, cuts, marks, rows, nsrc, args, ret>>

\* reader.read returns 0: leave the loop and print any remaining row; a failed
\* write to stdout ends the process
Eof ==
    /\ pc = "read"
    /\ \E written \in BOOLEAN :
        IF state.column = 0
        THEN pc' = "done" /\ UNCHANGED <<rows, state>>
        ELSE IF PrintRowPanics(printer, state)
        THEN pc' = "panic" /\ UNCHANGED <<rows, state>>
        ELSE IF ~written
        THEN pc' = "exit" /\ UNCHANGED <<rows, state>>
        ELSE /\ rows' = Append(rows, RowLine(printer, state))
             /\ state' = PrintRow(printer, state)
             /\ pc' = "done"
    /\ UNCHANGED <<printer, buf, start, cur, idx, input, cuts, marks, nsrc, args, ret>>

\* while start < size: gather the next group from buf[start..size]; a group
\* without bytes passes through format_group without an iteration of its loop
GatherStep ==
    /\ pc = "gather"
    /\ start < Len(buf)
    /\ LET g == Gather(SliceFrom(buf, start), printer.numeric)
           n == Len(g.span.bytes)
       IN  /\ start' = start + n
           /\ IF n > 0
              THEN /\ cur' = Some(g)
                   /\ pc' = "format"
                   /\ state' = state
              ELSE /\ cur' = None
                   /\ pc' = "gather"
                   /\ state' = IF state.column > 0 THEN ColorizeGroup(state, g.kind)
                               ELSE state
    /\ idx' = 0
    /\ UNCHANGED <<printer, buf, input, cuts, marks, rows, nsrc, args, ret>>

\* one iteration of format_group's loop; the last one also runs the trailing
\* colorize_group and returns to pretty_hex's loop test
FormatByte ==
    /\ pc = "format"
    /\ \E written \in BOOLEAN :
        LET g == cur[1]
            n == Len(g.span.bytes)
            st1 == ByteStep(printer, state, g, idx)
            full == st1.column = printer.width
            st2 == IF full THEN ColorizeGroup(st1, g.kind) ELSE st1
            st3 == IF full THEN PrintRow(printer, st2) ELSE st2
            last == idx + 1 = n
            st4 == IF last /\ st3.column > 0 THEN ColorizeGroup(st3, g.kind) ELSE st3
            stay == UNCHANGED <<state, rows, marks, idx, cur>>
        IN  IF FormatPanics(printer, g) THEN pc' = "panic" /\ stay
            ELSE IF full /\ PrintRowPanics(printer, st2) THEN pc' = "panic" /\ stay
            ELSE IF full /\ ~written THEN pc' = "exit" /\ stay
            ELSE
            /\ state' = st4
            /\ rows' = IF full THEN Append(rows, RowLine(printer, st2)) ELSE rows
            /\ marks' = Append(marks, [kind |-> g.kind,
                                       place |-> Placement(printer, state, g, idx),
                                       wide |-> g.kind = "Graphemes"
                                                /\ DisplayWidth(g.span.parsed[1]) = 2,
                                       index |-> idx,
                                       length |-> n,
                                       column |-> state.column,
                                       row |-> Len(rows)])
            /\ idx' = idx + 1
            /\ cur' = IF last THEN None ELSE cur
            /\ pc' = IF ~last THEN "format"
                     ELSE IF start < Len(buf) THEN "gather" ELSE "read"
    /\ UNCHANGED <<printer, buf, start, input, cuts, nsrc, args, ret>>

\* run(): the next path of args.input, with the same Printer
NextSource ==
    /\ pc = "done"
    /\ nsrc < MaxSources
    /\ nsrc' = nsrc + 1
    /\ pc' = "read"
    /\ UNCHANGED <<printer, state, buf, start, cur, idx, input, cuts, marks, rows, args, ret>>

\* run(): File::open of the next path fails
OpenFail ==
    /\ pc = "done"
    /\ nsrc < MaxSources
    /\ nsrc' = nsrc + 1
    /\ pc' = "failed"
    /\ ret' = Some(ErrFile(nsrc + 1))
    /\ UNCHANGED <<printer, state, buf, start, cur, idx, input, cuts, marks, rows, args>>

Next ==
    Read \/ ReadFail \/ Eof \/ GatherStep \/ FormatByte \/ NextSource \/ OpenFail

Spec == Init /\ [][Next]_vars

(***************************************************************************)
(* Group::gather on its own: every slice of up to MaxLen bytes in every    *)
(* numeric mode, then, as pretty_hex's loop does, the unconsumed rest.     *)
(***************************************************************************)
IdlePrinter ==
    /\ printer = None
    /\ state = DefaultState
    /\ buf = <<>>
    /\ start = 0
    /\ cur = None
    /\ idx = 0
    /\ input = <<>>
    /\ cuts = <<>>
    /\ marks = <<>>
    /\ rows = <<>>
    /\ nsrc = 0

printerVars == <<printer, state, buf, start, cur, idx, input, cuts, marks, rows, nsrc>>

InitGather ==
    /\ IdlePrinter
    /\ pc = "call"
    /\ args \in {[fn |-> "gather", bytes |-> b, numeric |-> n] :
                    b \in SeqsOf(GatherBytes, 1, MaxLen), n \in Modes}
    /\ ret = None

GatherCall ==
    /\ pc = "call"
    /\ args.fn = "gather"
    /\ ret' = Some(Gather(args.bytes, args.numeric))
    /\ pc' = "ret"
    /\ UNCHANGED <<printerVars, args>>

\* start += group.span.bytes.len(); while start < size
GatherRest ==
    /\ pc = "ret"
    /\ args.fn = "gather"
    /\ Len(ret[1].span.bytes) < Len(args.bytes)
    /\ args' = [args EXCEPT !.bytes = SliceFrom(@, Len(ret[1].span.bytes))]
    /\ ret' = None
    /\ pc' = "call"
    /\ UNCHANGED printerVars

NextGather == GatherCall \/ GatherRest

SpecGather == InitGather /\ [][NextGather]_vars

Gathered == pc = "ret" /\ args.fn = "gather"

\* C1: for every non-empty slice and every numeric mode, the group gather
\* returns holds a non-empty prefix of the slice (1 <= length <= slice length)
\* and its kind is one of the five kinds.
GatherPrefix ==
    Gathered =>
        LET g == ret[1]
            n == Len(g.span.bytes)
        IN  /\ 1 <= n
            /\ n <= Len(args.bytes)
            /\ g.span.bytes = SliceTo(args.bytes, n)
            /\ g.kind \in Kinds

\* a Graphemes group that is a proper prefix of a longer slice
GatherPrefixWitness ==
    /\ Gathered
    /\ ret[1].kind = "Graphemes"
    /\ Len(ret[1].span.bytes) = 3
    /\ Len(args.bytes) = 4

\* the predicate a run of the given kind is made of
KindPredicate(kind, b, numeric) ==
    CASE kind = "Numeric" -> IsNumeric(b, numeric)
      [] kind = "Printable" -> IsPrintable(b) /\ ~IsNumeric(b, numeric)
      [] kind = "Control" -> IsControl(b)

\* C2: in a Numeric, Printable or Control group every byte of the run satisfies
\* the kind's predicate under the active mode, and the byte of the slice right
\* after the run, if any, does not.
RunMaximal ==
    (Gathered /\ ret[1].kind \in {"Numeric", "Printable", "Control"}) =>
        LET g == ret[1]
            n == Len(g.span.bytes)
        IN  /\ \A k \in 1..n : KindPredicate(g.kind, g.span.bytes[k], args.numeric)
            /\ n < Len(args.bytes) =>
                    ~KindPredicate(g.kind, args.bytes[n + 1], args.numeric)

\* a Printable run of two bytes that a digit ends
RunMaximalWitness ==
    /\ Gathered
    /\ ret[1].kind = "Printable"
    /\ Len(ret[1].span.bytes) = 2
    /\ args.numeric = "Decimal"
    /\ args.bytes[1] = 65
    /\ Len(args.bytes) > 2
    /\ IsNumeric(args.bytes[3], args.numeric)

\* C7: in Octal mode exactly the bytes 0x30..=0x37 are classified Numeric; 0x37
\* starts or extends a Numeric run and is never in a Printable run.
OctalDigitsNumeric ==
    (Gathered /\ args.numeric = "Octal") =>
        LET g == ret[1]
        IN  /\ g.kind = "Numeric" <=> args.bytes[1] \in 48..55
            /\ g.kind = "Numeric" =>
                    \/ Len(g.span.bytes) = Len(args.bytes)
                    \/ args.bytes[Len(g.span.bytes) + 1] \notin 48..55
            /\ g.kind = "Printable" => \A k \in 1..Len(g.span.bytes) : g.span.bytes[k] # 55

\* C8: an Invalid run ends before the first following byte that classifies as
\* something else: no byte after the first is numeric, printable or control,
\* and a grapheme cluster cannot be parsed at the offset of any byte after the first.
InvalidStopsAtCluster ==
    (Gathered /\ ret[1].kind = "Invalid") =>
        \A k \in 2..Len(ret[1].span.bytes) :
            /\ ~IsNumeric(args.bytes[k], args.numeric)
            /\ ~IsPrintable(args.bytes[k])
            /\ ~IsControl(args.bytes[k])
            /\ SpanParse(SliceFrom(args.bytes, k - 1)) = None

\* Utf8Error::valid_up_to: the length of the longest well-formed prefix
RECURSIVE ValidUpTo(_, _)
ValidUpTo(bytes, p) ==
    IF p > Len(bytes) THEN Len(bytes)
    ELSE IF Utf8SeqLen(bytes, p) = 0 THEN p - 1
    ELSE ValidUpTo(bytes, p + Utf8SeqLen(bytes, p))

\* the first cluster of the well-formed prefix of the slice
LeadingCluster(bytes) == FirstGraphemeLen(SliceTo(bytes, ValidUpTo(bytes, 1)))

\* C9: when the first byte is not numeric, printable or control and the slice
\* begins with a well-formed grapheme cluster, gather returns Graphemes with
\* exactly that cluster's length, whatever follows the cluster.
ClusterWhateverFollows ==
    (/\ Gathered
     /\ ~IsNumeric(args.bytes[1], args.numeric)
     /\ ~IsPrintable(args.bytes[1])
     /\ ~IsControl(args.bytes[1])
     /\ LeadingCluster(args.bytes) # None) =>
        /\ ret[1].kind = "Graphemes"
        /\ Len(ret[1].span.bytes) = LeadingCluster(args.bytes)[1]

(***************************************************************************)
(* Span::as_char on its own, on the clusters of the test and of the model's*)
(* bytes, at every byte offset and every column of a row of TestWidth.     *)
(***************************************************************************)
TestWidth == 8

\* "\u{1F469}\u{1F3FB}\u{200D}\u{1F680}".as_bytes()
Astronaut ==
    <<240, 159, 145, 169, 240, 159, 143, 187, 226, 128, 141, 240, 159, 154, 128>>

TestClusters ==
    {Astronaut, <<228, 169, 169>>, <<228, 169, 169, 204, 169>>,
     <<195, 169>>, <<195, 169, 204, 169>>, <<204, 169>>}

InitAsChar ==
    /\ IdlePrinter
    /\ pc = "call"
    /\ args \in {[fn |-> "as_char", span |-> SpanParse(c)[1], index |-> i,
                  column |-> col, width |-> TestWidth] :
                    c \in TestClusters, i \in 0..14, col \in 0..(TestWidth - 1)}
    /\ args.index < Len(args.span.bytes)
    /\ ret = None

AsCharCall ==
    /\ pc = "call"
    /\ args.fn = "as_char"
    /\ ret' = Some(AsChar(args.span, args.index, args.column, args.width))
    /\ pc' = "ret"
    /\ UNCHANGED <<printerVars, args>>

NextAsChar == AsCharCall

SpecAsChar == InitAsChar /\ [][NextAsChar]_vars

\* the column at which byte offset 0 of the cluster was placed
StartColumn == (args.column + 2 * args.width - args.index) % args.width

\* C4: as_char follows the placement table.  A double-wide cluster at width 8
\* that starts at column j in 0..6: offset 0 is Cluster, offset 1 is Skip, later
\* offsets are Space; starting at column 7: offset 0 is Space, offset 1 (column
\* 0) is Cluster, offset 2 (column 1) is Skip, later offsets are Space.  A
\* cluster that is not double-wide: offset 0 is Cluster, the others are Space.
PlacementTable ==
    (pc = "ret" /\ args.fn = "as_char" /\ args.width = 8) =>
        LET i == args.index
            wide == DisplayWidth(args.span.parsed[1]) = 2
            expected ==
                IF ~wide THEN (IF i = 0 THEN "Cluster" ELSE "Space")
                ELSE IF StartColumn \in 0..6
                    THEN (CASE i = 0 -> "Cluster" [] i = 1 -> "Skip" [] OTHER -> "Space")
                ELSE (CASE i = 0 -> "Space" [] i = 1 -> "Cluster" [] i = 2 -> "Skip"
                        [] OTHER -> "Space")
        IN  ret[1] = expected

\* the test's edge case: the astronaut, parsed as one cluster of all its bytes,
\* started at column 7, its byte offset 2 at column 1
PlacementTableWitness ==
    /\ pc = "ret"
    /\ args.fn = "as_char"
    /\ args.span.bytes = Astronaut
    /\ args.index = 2
    /\ args.column = 1
    /\ ret = Some("Skip")

(***************************************************************************)
(* Printer::new on its own, at the edges of its ranges.                    *)
(***************************************************************************)
NewWidths == {0, 1, 2, 3, 4095, 4096, 4097}

NewGroups == {0, 1, 2, 3, 4, 4095, 4096, 4097, 4098}

InitNew ==
    /\ IdlePrinter
    /\ pc = "call"
    /\ args \in {[fn |-> "new", width |-> w, group |-> g, numeric |-> n] :
                    w \in NewWidths, g \in NewGroups, n \in Modes}
    /\ ret = None

NewCall ==
    /\ pc = "call"
    /\ args.fn = "new"
    /\ ret' = Some(PrinterNew(args.width, args.group, args.numeric))
    /\ pc' = "ret"
    /\ UNCHANGED <<printerVars, args>>

NextNew == NewCall

SpecNew == InitNew /\ [][NextNew]_vars

IsErr(r, e) == r.tag = "Err" /\ r.error = e

\* C6: Printer::new rejects width 1 and width 4096 with the Width error and
\* accepts widths 2 and 4095; it rejects group > width with the Grouping error
\* and accepts group = width.
WidthBounds ==
    (pc = "ret" /\ args.fn = "new" /\ args.group >= 1) =>
        /\ args.width \in {1, 4096} => IsErr(ret[1], "Width")
        /\ (args.width \in {2, 4095} /\ args.group \in 1..args.width) => ret[1].tag = "Ok"
        /\ (args.width \in 2..4095 /\ args.group > args.width) => IsErr(ret[1], "Grouping")
        /\ (args.width \in 2..4095 /\ args.group = args.width) => ret[1].tag = "Ok"

\* C15: every configuration Printer::new accepts has 1 <= group <= width and
\* a width in range, and a group outside 1..=width, group = 0 included, is
\* rejected with a configuration error value rather than accepted or failing
\* in another way (widths other than the upper edge 4096).
GroupValidated ==
    (pc = "ret" /\ args.fn = "new" /\ args.width # 4096) =>
        /\ ret[1].tag = "Ok" =>
            /\ args.group \in 1..args.width
            /\ args.width \in 2..4095
        /\ args.group \notin 1..args.width => ret[1].tag = "Err"

(***************************************************************************)
(* Reading the output back.                                                *)
(***************************************************************************)
RECURSIVE Flatten(_)
Flatten(frags) ==
    IF frags = <<>> THEN <<>> ELSE frags[1].text \o Flatten(SubSeq(frags, 2, Len(frags)))

RECURSIVE RowsHex(_)
RowsHex(rs) ==
    IF rs = <<>> THEN <<>> ELSE Flatten(rs[1].hex) \o RowsHex(SubSeq(rs, 2, Len(rs)))

RECURSIVE Digits(_)
Digits(text) ==
    IF text = <<>> THEN <<>>
    ELSE IF text[1] = " " THEN Digits(SubSeq(text, 2, Len(text)))
    ELSE <<text[1]>> \o Digits(SubSeq(text, 2, Len(text)))

DigitValue(c) == CHOOSE v \in 0..15 : HexDigits[v + 1] = c

\* the bytes a text of hex pairs spells; an odd digit left over spells -1
DecodeHex(digits) ==
    [k \in 1..((Len(digits) + 1) \div 2) |->
        IF 2 * k > Len(digits) THEN -1
        ELSE DigitValue(digits[2 * k - 1]) * 16 + DigitValue(digits[2 * k])]

\* every hex character produced so far, in emission order
HexSoFar == RowsHex(rows) \o Flatten(state.hex) \o state.hex_group

\* C3: the hex pairs of all rows, in emission order, separators and padding
\* ignored, spell exactly the input bytes in their order: at every moment the
\* pairs produced spell the bytes formatted so far, and when pretty_hex returns
\* the rows alone spell the whole input.
HexRoundTrip ==
    /\ DecodeHex(Digits(HexSoFar)) = SliceTo(input, Len(marks))
    /\ pc = "done" => DecodeHex(Digits(RowsHex(rows))) = input

\* a whole input of MaxInput bytes in two reads and two sources, printed in
\* several rows, with a group that runs over a row flush
HexRoundTripWitness ==
    /\ pc = "done"
    /\ nsrc = 2
    /\ Len(input) = MaxInput
    /\ Len(cuts) >= 2
    /\ Len(rows) >= 2
    /\ \E m \in 1..Len(marks) : marks[m].index > 0 /\ marks[m].column = 0
    /\ 65 \in {input[k] : k \in 1..Len(input)}

\* display cells of a table cell, and of the table text of a row
CellWidth(cell) == IF cell.t = "cluster" THEN DisplayWidth(cell.s) ELSE 1

RECURSIVE CellsOf(_)
CellsOf(text) ==
    IF text = <<>> THEN 0 ELSE CellWidth(text[1]) + CellsOf(SubSeq(text, 2, Len(text)))

\* the positions of marks at which a whole double-wide cluster of >= 3 bytes starts
WideStarts ==
    {m \in 1..Len(marks) :
        /\ marks[m].kind = "Graphemes"
        /\ marks[m].wide
        /\ marks[m].index = 0
        /\ marks[m].length >= 3
        /\ m + marks[m].length - 1 <= Len(marks)}

\* C5: a double-wide cluster of 3 or more bytes fed through format_group gets
\* exactly one Cluster placement and exactly one Skip, the Skip on the byte
\* right after the Cluster and in the same row, and Space on every other
\* byte; every row holds one hex pair and one display cell per byte, so that
\* with its padding the table area of a row is exactly width cells.
WidePlacedOnce ==
    /\ \A m \in WideStarts :
        \E c \in 0..(marks[m].length - 2) :
            /\ marks[m + c].place = "Cluster"
            /\ marks[m + c + 1].place = "Skip"
            /\ marks[m + c + 1].row = marks[m + c].row
            /\ marks[m + c + 1].column = marks[m + c].column + 1
            /\ \A o \in 0..(marks[m].length - 1) :
                    o \notin {c, c + 1} => marks[m + o].place = "Space"
    /\ \A r \in 1..Len(rows) :
        /\ CellsOf(Flatten(rows[r].table)) + rows[r].table_pad = printer.width
        /\ Len(Digits(Flatten(rows[r].hex))) = 2 * (printer.width - rows[r].table_pad)

\* the wrap case at the widest row: the cluster starts in the last column
WidePlacedOnceWitness ==
    /\ printer.width = MaxWidth
    /\ \E m \in WideStarts :
        /\ marks[m].column = printer.width - 1
        /\ marks[m].place = "Space"
        /\ marks[m + 1].place = "Cluster"
        /\ Len(rows) >= 1

\* the address field of the k-th row (k from 0) of a Printer of the given width
AddressText(k, width) ==
    <<"0", "0", "0", "0", "_", "0", "0", "0", "0", "_", "0", "0", "0", "0", "_">>
        \o Hex4(k * width)

ColumnInRange ==
    /\ state.column >= 0
    /\ state.column < printer.width
    /\ \A r \in 1..Len(rows) : rows[r].addr = AddressText(r - 1, printer.width)

ColumnStep ==
    /\ Len(marks') = Len(marks) + 1 =>
            state'.column = (IF state.column + 1 = printer.width THEN 0
                             ELSE state.column + 1)
    /\ Len(marks') = Len(marks) => state'.column \in {state.column, 0}
    /\ (state'.column = 0 /\ state.column # 0) => Len(rows') = Len(rows) + 1
    /\ Len(rows') = Len(rows) + 1 =>
            /\ state'.column = 0
            /\ state'.addr = U64Add(state.addr, printer.width)
    /\ Len(rows') = Len(rows) => state'.addr = state.addr
    /\ Len(rows') \in {Len(rows), Len(rows) + 1}

\* C10: between byte steps 0 <= column < width; column grows by exactly 1 per
\* consumed byte and returns to 0 only by a row flush; every flush, full or
\* final partial, adds exactly width to the address, so the k-th row a Printer
\* emits (from 0, over all its sources) is printed with address k * width.
ColumnAndAddress == []ColumnInRange /\ [][ColumnStep]_vars

\* a row printed in the second source after the first source ended in a partial row
ColumnAndAddressWitness ==
    /\ nsrc = 2
    /\ Len(rows) >= 3
    /\ \E r \in 1..(Len(rows) - 1) : rows[r].table_pad > 0

(***************************************************************************)
(* The hex area of a row.                                                  *)
(***************************************************************************)
\* the least q with q * g >= n
CeilDiv(n, g) == CHOOSE q \in 0..n : q * g >= n /\ (q = 0 \/ (q - 1) * g < n)

\* the number of bytes formatted into the row with 0-based index r
BytesOfRow(r) == Cardinality({m \in 1..Len(marks) : marks[m].row = r})

Spaces(text) == Cardinality({j \in 1..Len(text) : text[j] = " "})

\* C11: the hex area of every emitted row, separators, digits and right padding
\* counted, has exactly width * 2 + ceil(width / group) characters; the unpadded
\* hex text of a row of n bytes has n * 2 + ceil(n / group) characters, one
\* separator before each byte whose column is a multiple of group; the table
\* area is padded with exactly width - n spaces.
HexAreaWidth ==
    \A r \in 1..Len(rows) :
        LET n == BytesOfRow(r - 1)
            text == Flatten(rows[r].hex)
            w == printer.width
            g == printer.group
            groups == CeilDiv(n, g)
        IN  /\ Len(text) + rows[r].hex_pad = w * 2 + CeilDiv(w, g)
            /\ Len(text) = n * 2 + groups
            /\ Spaces(text) = groups
            /\ \A c \in 0..(n - 1) :
                    (c % g = 0) <=> (text[2 * c + CeilDiv(c, g) + 1] = " ")
            /\ rows[r].table_pad = w - n

\* a full row of two bytes in one byte group followed by a final row of one byte
HexAreaWidthWitness ==
    /\ printer.group = 2
    /\ Len(rows) = 2
    /\ BytesOfRow(0) = 2
    /\ BytesOfRow(1) = 1
    /\ rows[2].hex_pad = 2

(***************************************************************************)
(* Failures of the pipeline.                                               *)
(***************************************************************************)
\* C12: for a Printer built from a valid configuration no byte content makes
\* the pipeline fail: no panic is reached (as_char's unwrap only sees Graphemes
\* groups whose parsed text is present; width - 1, max - padding(group, column)
\* and width - column do not underflow), and pretty_hex ends otherwise than by
\* Ok only when a read, an open or a write failed.
NoContentFailure ==
    /\ pc \in {"read", "gather", "format", "done", "failed", "exit"}
    /\ pc = "failed" => ret # None /\ ret[1].error \in {"Io", "File"}
    /\ pc # "failed" => ret = None
    /\ (cur # None /\ cur[1].kind = "Graphemes") => cur[1].span.parsed # None
    /\ printer.width - 1 >= 0
    /\ printer.max - Padding(printer.group, state.column) >= 0
    /\ printer.width - state.column >= 0
    /\ \A r \in 1..Len(rows) : rows[r].hex_pad >= 0 /\ rows[r].table_pad >= 0

\* pretty_hex returned Ok on an input with malformed bytes before a cluster,
\* the cluster run through as_char
NoContentFailureWitness ==
    /\ pc = "done"
    /\ Len(marks) = MaxInput
    /\ marks[1].kind = "Invalid"
    /\ marks[2].kind = "Graphemes"
    /\ marks[2].place = "Space"
    /\ marks[3].place = "Cluster"

\* C13: a read failure while a source is processed aborts that source and
\* reaches the caller as an error that identifies the input that failed, the
\* same as a failure to open it.
ReadFailureNamesSource ==
    pc = "failed" =>
        /\ ret[1].tag = "Err"
        /\ ret[1].error = "File"
        /\ ret[1].source = Some(nsrc)

(***************************************************************************)
(* One pretty_hex call on the bytes 'A', space and 0x01, in Decimal mode,  *)
(* for every row width and grouping up to the length of the example and    *)
(* every way of splitting the input into reads.                            *)
(***************************************************************************)
ExampleInput == <<65, 32, 1>>

ExampleBytes == {ExampleInput[k] : k \in 1..Len(ExampleInput)}

ExampleConfigs ==
    {PrinterNew(w, g, "Decimal").value :
        <<w, g>> \in {c \in (2..Len(ExampleInput)) \X (1..Len(ExampleInput)) : c[2] <= c[1]}}

InitExample ==
    /\ pc = "read"
    /\ printer \in ExampleConfigs
    /\ state = DefaultState
    /\ buf = <<>>
    /\ start = 0
    /\ cur = None
    /\ idx = 0
    /\ input = <<>>
    /\ cuts = <<>>
    /\ marks = <<>>
    /\ rows = <<>>
    /\ nsrc = 1
    /\ args = NoArgs
    /\ ret = None

ReadExample ==
    /\ pc = "read"
    /\ Len(input) < Len(ExampleInput)
    /\ \E chunk \in SeqsOf(ExampleBytes, 1, Min(MaxRead, Len(ExampleInput) - Len(input))) :
        /\ buf' = chunk
        /\ input' = input \o chunk
        /\ cuts' = Append(cuts, Len(input) + Len(chunk))
    /\ start' = 0
    /\ pc' = "gather"
    /\ UNCHANGED <<printer, state, cur, idx, marks, rows, nsrc, args, ret>>

NextExample == ReadExample \/ Eof \/ GatherStep \/ FormatByte

SpecExample == InitExample /\ [][NextExample]_vars

\* C14: a pretty_hex call that starts at column 0 and reads n bytes emits
\* exactly ceil(n / width) rows: a row is flushed as soon as column reaches
\* width, every row but possibly the last holds width bytes, a final partial
\* row is flushed at end of stream exactly when column > 0, an empty input
\* emits no row and the call ends with column 0.  For 41 20 01 at width 3 and
\* group 3 that is one row at address 0000_0000_0000_0000 with the hex pairs
\* 41 20 01 and the control byte shown as a dot.
RowsPerCall ==
    LET w == printer.width
        n == Len(input)
    IN  /\ pc # "done" =>
            /\ Len(rows) = Len(marks) \div w
            /\ state.column = Len(marks) % w
        /\ \A r \in 1..(Len(rows) - 1) : BytesOfRow(r - 1) = w
        /\ pc = "done" =>
            /\ Len(marks) = n
            /\ Len(rows) = CeilDiv(n, w)
            /\ state.column = 0
            /\ n = 0 => rows = <<>>
            /\ n > 0 => BytesOfRow(Len(rows) - 1) = (IF n % w = 0 THEN w ELSE n % w)
        /\ (pc = "done" /\ input = ExampleInput /\ w = 3 /\ printer.group = 3) =>
            /\ Len(rows) = 1
            /\ rows[1].addr = AddressText(0, w)
            /\ Digits(Flatten(rows[1].hex)) = <<"4", "1", "2", "0", "0", "1">>
            /\ Flatten(rows[1].table) = <<CharCell(65), CharCell(32), DotCell>>
            /\ rows[1].table_pad = 0

\* the example, read in two parts
RowsPerCallWitness ==
    /\ pc = "done"
    /\ input = ExampleInput
    /\ printer.width = 3
    /\ printer.group = 3
    /\ Len(cuts) = 2

\* The kind of every byte when the classification loop of pretty_hex runs over
\* the whole input held in one buffer.
RECURSIVE OneReadKinds(_, _)
OneReadKinds(bytes, numeric) ==
    IF bytes = <<>> THEN <<>>
    ELSE LET g == Gather(bytes, numeric)
             n == Len(g.span.bytes)
         IN  [k \in 1..n |-> g.kind] \o OneReadKinds(SliceFrom(bytes, n), numeric)

\* C16: the kind pretty_hex gives every byte does not depend on how the source
\* splits the input into reads: at the end of the first source the kinds are
\* those of the same bytes classified from one contiguous buffer.
SplitIndependent ==
    (pc = "done" /\ nsrc = 1) =>
        [k \in 1..Len(marks) |-> marks[k].kind] = OneReadKinds(input, printer.numeric)

\* The styled fragments written so far, in output order: those of the rows
\* printed and those of the row being built.
RECURSIVE Concat(_)
Concat(seqs) ==
    IF seqs = <<>> THEN <<>> ELSE seqs[1] \o Concat(SubSeq(seqs, 2, Len(seqs)))

AllHex == Concat([r \in 1..Len(rows) |-> rows[r].hex]) \o state.hex

AllTable == Concat([r \in 1..Len(rows) |-> rows[r].table]) \o state.table

\* the number of bytes whose hex pairs a fragment holds
FragBytes(frag) == Cardinality({j \in 1..Len(frag.text) : frag.text[j] # " "}) \div 2

\* for every fragment, the number of bytes up to its last one
RECURSIVE FragEnds(_, _)
FragEnds(frags, before) ==
    IF frags = <<>> THEN <<>>
    ELSE LET end == before + FragBytes(frags[1])
         IN  <<end>> \o FragEnds(SubSeq(frags, 2, Len(frags)), end)

Returned == pc \in {"read", "gather", "done", "failed"}

\* C17: once format_group has returned, hex_group and table_group are empty;
\* the fragments of the row buffers start exactly where a group or a row
\* starts, so each holds bytes of one group only and a group crossing a row
\* boundary has one fragment per row; every fragment carries the kind of the
\* group of its bytes, in the hex area and in the table alike.
FragmentsOneGroup ==
    Returned =>
        LET hex == AllHex
            table == AllTable
            ends == FragEnds(hex, 0)
            first(i) == IF i = 1 THEN 1 ELSE ends[i - 1] + 1
        IN  /\ state.hex_group = <<>>
            /\ state.table_group = <<>>
            /\ (IF hex = <<>> THEN 0 ELSE ends[Len(hex)]) = Len(marks)
            /\ {first(i) : i \in 1..Len(hex)}
                = {k \in 1..Len(marks) : marks[k].index = 0 \/ marks[k].column = 0}
            /\ \A i \in 1..Len(hex) : \A k \in first(i)..ends[i] : marks[k].kind = hex[i].kind
            /\ \A r \in 1..Len(rows) : Len(rows[r].table) = Len(rows[r].hex)
            /\ Len(table) = Len(hex)
            /\ \A i \in 1..Len(table) :
                /\ table[i].kind = hex[i].kind
                /\ Len(table[i].text)
                    = Cardinality({k \in first(i)..ends[i] : marks[k].place # "Skip"})

\* a cluster of three bytes started on the last column of a row of width two:
\* one group in two fragments, one per row, after a fragment of another kind
FragmentsOneGroupWitness ==
    /\ Returned
    /\ printer.width = 2
    /\ Len(marks) >= 4
    /\ marks[1].kind = "Printable"
    /\ marks[2].kind = "Graphemes"
    /\ marks[4].index = 2
    /\ Len(AllHex) = 3
    /\ Len(rows) = 2

(***************************************************************************)
(* Printer::pretty_addr on its own: addresses whose 16-bit fields take the *)
(* edge values of a field and values that differ in every digit.           *)
(***************************************************************************)
AddrFields == {0, 1, 255, 256, 43981, 65535}

InitAddr ==
    /\ IdlePrinter
    /\ pc = "call"
    /\ args \in {[fn |-> "pretty_addr", addr |-> <<a, b, c, d>>] :
                    a \in AddrFields, b \in AddrFields, c \in AddrFields, d \in AddrFields}
    /\ ret = None

AddrCall ==
    /\ pc = "call"
    /\ args.fn = "pretty_addr"
    /\ ret' = Some(PrettyAddr(args.addr))
    /\ pc' = "ret"
    /\ UNCHANGED <<printerVars, args>>

NextAddr == AddrCall

SpecAddr == InitAddr /\ [][NextAddr]_vars

\* the value a field of four hex digits spells
FieldValue(text) == DecodeHex(text)[1] * 256 + DecodeHex(text)[2]

\* C18: pretty_addr renders a 64-bit address as a_b_c_d: four fields of
\* exactly 4 lowercase hex digits joined by underscores, where a, b, c and d
\* are bits 63..48, 47..32, 31..16 and 15..0 of the address, so the fields
\* read back as base-2^16 digits give the address.
AddrRoundTrip ==
    (pc = "ret" /\ args.fn = "pretty_addr") =>
        LET text == ret[1]
            field(f) == SubSeq(text, 5 * f - 4, 5 * f - 1)
        IN  /\ Len(text) = 19
            /\ \A i \in {5, 10, 15} : text[i] = "_"
            /\ \A i \in (1..19) \ {5, 10, 15} :
                \E v \in 1..Len(HexDigits) : text[i] = HexDigits[v]
            /\ \A f \in 1..4 : FieldValue(field(f)) = args.addr[f]

\* the address 0xabcd_0100_00ff_ffff
AddrRoundTripWitness ==
    /\ pc = "ret"
    /\ args.fn = "pretty_addr"
    /\ args.addr = <<43981, 256, 255, 65535>>
    /\ ret = Some(<<"a", "b", "c", "d", "_", "0", "1", "0", "0", "_",
                    "0", "0", "f", "f", "_", "f", "f", "f", "f">>)

(***************************************************************************)
(* One pretty_hex call under scheduling, for every row width and numeric   *)
(* mode, each row one group: the process keeps executing its loops, and a  *)
(* source that has no more bytes returns 0 (or fails).                     *)
(***************************************************************************)
InitLive ==
    /\ pc = "read"
    /\ printer \in {c \in Configs : c.group = c.width}
    /\ state = DefaultState
    /\ buf = <<>>
    /\ start = 0
    /\ cur = None
    /\ idx = 0
    /\ input = <<>>
    /\ cuts = <<>>
    /\ marks = <<>>
    /\ rows = <<>>
    /\ nsrc = 1
    /\ args = NoArgs
    /\ ret = None

Running == GatherStep \/ FormatByte \/ Eof

NextLive == Read \/ ReadFail \/ Running

SpecLive == InitLive /\ [][NextLive]_vars /\ WF_vars(Running)

\* the bytes of the input handed to format_group so far
Formatted ==
    (Len(input) - Len(buf)) + start
        - (IF pc = "format" THEN Len(cur[1].span.bytes) - idx ELSE 0)

StartInRange ==
    /\ start <= Len(buf)
    /\ pc \in {"read", "done", "failed"} => start = Len(buf)
    /\ pc \in {"read", "gather", "format", "done", "failed"} => Len(marks) = Formatted

StartAdvances ==
    pc = "gather" =>
        /\ start' > start
        /\ start' <= Len(buf)
        /\ cur' # None
        /\ start' - start = Len(cur'[1].span.bytes)

Finished == pc \in {"done", "failed", "exit", "panic"}

\* C19: for every read of size > 0 the classification loop terminates: start
\* grows on each iteration by the length of the gathered group, which is at
\* least one byte, never exceeds size, and is size when the loop ends, every
\* byte of the read having gone through format_group exactly once; and once
\* the source returns 0 pretty_hex finishes.
LoopTerminates ==
    /\ []StartInRange
    /\ [][StartAdvances]_vars
    /\ (pc = "gather") ~> (pc = "read" \/ Finished)
    /\ (pc = "read") ~> Finished

\* a read of three bytes gathered as three groups, and the call returned
LoopTerminatesWitness ==
    /\ pc = "done"
    /\ nsrc = 1
    /\ cuts = <<3>>
    /\ start = 3
    /\ Len(marks) = 3
    /\ \A k \in 1..3 : marks[k].index = 0

====
